---------------------------- MODULE Spec2Model ----------------------------
(***************************************************************************)
(* Model of the wave-dispersion repository:                                *)
(*   - kh_numeric, the Newton-Raphson reference solver                     *)
(*     (wave-disp-equation.py, pade_approximants.py, table_k0h_kh_1000.py) *)
(*   - compute_pade_coeffs / pade_approximation (pade_approximants.py)     *)
(*   - compute_errors and the ranking driver main (wave-disp-equation.py)  *)
(*                                                                         *)
(* Python floats are carried as fixed-point integers with One units per    *)
(* 1.0; every product and quotient rounds to the nearest unit.  The float  *)
(* value +inf is carried as the distinguished value Inf.  Exceptions are   *)
(* carried as outcome records [kind |-> <exception name>].                 *)
(***************************************************************************)
EXTENDS Integers, Sequences, FiniteSets, TLC

(***************************************************************************)
(* Fixed-point arithmetic                                                  *)
(***************************************************************************)
One == 1000

FxAbs(a) == IF a < 0 THEN -a ELSE a

FxSign(a) == IF a < 0 THEN -1 ELSE 1

\* n / d rounded to the nearest integer (d # 0), sign of the exact quotient
RDiv(n, d) ==
    (FxSign(n) * FxSign(d)) *
        ((FxAbs(n) \div FxAbs(d))
            + (IF 2 * (FxAbs(n) % FxAbs(d)) >= FxAbs(d) THEN 1 ELSE 0))

\* a * b
FxMul(a, b) == RDiv(a * b, One)

\* a / b  (b # 0; callers guard b = 0, where Python raises ZeroDivisionError)
FxDiv(a, b) == RDiv(a * One, b)

RECURSIVE SqrtSearch(_, _, _)
\* largest r in lo..hi with r*r <= v
SqrtSearch(v, lo, hi) ==
    IF lo >= hi THEN lo
    ELSE LET mid == (lo + hi + 1) \div 2
         IN  IF mid * mid <= v THEN SqrtSearch(v, mid, hi)
                               ELSE SqrtSearch(v, lo, mid - 1)

\* math.sqrt(x) for x >= 0 (callers guard x < 0, where Python raises ValueError)
FxSqrt(x) ==
    LET v == x * One
        r == SqrtSearch(v, 0, 46000)
    IN  IF (r + 1) * (r + 1) - v < v - r * r THEN r + 1 ELSE r

\* e^(-1)
EInv1 == 368

\* arguments from which e^(-t) is below half a unit
ExpCut == 8 * One

RECURSIVE EInv(_)
\* e^(-n) for a natural number n
EInv(n) == IF n = 0 THEN One ELSE FxMul(EInv(n - 1), EInv1)

\* e^(-f) for 0 <= f < One: the Taylor polynomial of degree 5, Horner form
ExpNegFrac(f) ==
    LET h4 == One - RDiv(f, 5)
        h3 == One - RDiv(FxMul(f, h4), 4)
        h2 == One - RDiv(FxMul(f, h3), 3)
        h1 == One - RDiv(FxMul(f, h2), 2)
    IN  One - FxMul(f, h1)

\* e^(-t) for t >= 0
ExpNeg(t) ==
    IF t >= ExpCut THEN 0
    ELSE FxMul(EInv(t \div One), ExpNegFrac(t % One))

\* math.tanh(y)
Tanh(y) ==
    LET e2 == ExpNeg(2 * FxAbs(y))
    IN  FxSign(y) * FxDiv(One - e2, One + e2)

\* 1 / math.cosh(y)**2  =  4 e^(-2|y|) / (1 + e^(-2|y|))^2
InvCoshSq(y) ==
    LET e2 == ExpNeg(2 * FxAbs(y))
        d  == One + e2
    IN  FxDiv(4 * e2, FxMul(d, d))

\* binary64: math.cosh(y)**2 raises OverflowError once cosh(y)^2 exceeds
\* the largest double, i.e. for |y| > ln(2) + ln(DBL_MAX)/2 = 355.58
CoshSqOverflow == 355 * One + 580

\* ln(6/5)
Ln65 == 182

\* largest value (6/5)**x is carried at; tanh of anything above it is 1
PowCap == 50 * One

RECURSIVE Pow65Acc(_, _)
\* acc * (6/5)**n for a natural number n, carried up to PowCap
Pow65Acc(acc, n) ==
    IF acc >= PowCap THEN PowCap
    ELSE IF n = 0 THEN acc
    ELSE Pow65Acc(FxMul(acc, 1200), n - 1)

\* (6/5)**x for x >= 0: (6/5)^floor(x) * e^(frac(x) * ln(6/5))
Pow65(x) ==
    LET t  == FxMul(x % One, Ln65)
        ef == One + t + RDiv(FxMul(t, t), 2) + RDiv(FxMul(FxMul(t, t), t), 6)
        r  == FxMul(Pow65Acc(One, x \div One), ef)
    IN  IF r >= PowCap THEN PowCap ELSE r


\* float('inf') and the result of 0/0 (float('nan')) of numpy arithmetic
Inf == 2000000000

NaN == 2000000001

IsFinite(a) == a # Inf /\ a # -Inf /\ a # NaN

\* math.pi
Pi == 3142

\* v ** n for a natural number n
RECURSIVE FxPow(_, _)
FxPow(v, n) == IF n = 0 THEN One ELSE FxMul(FxPow(v, n - 1), v)

\* cos(t) for 0 <= t <= pi/2: Taylor polynomial of degree 8, Horner form
CosTaylor(t) ==
    LET t2 == FxMul(t, t)
        h3 == One - RDiv(t2, 56)
        h2 == One - RDiv(FxMul(t2, h3), 30)
        h1 == One - RDiv(FxMul(t2, h2), 12)
    IN  One - RDiv(FxMul(t2, h1), 2)

\* np.cos(t) for 0 <= t <= pi
Cos(t) == IF 2 * t <= Pi THEN CosTaylor(t) ELSE -CosTaylor(Pi - t)

\* np.linspace(a, b, n) for n >= 1, as a sequence of length n
Linspace(a, b, n) ==
    [i \in 1..n |-> IF n = 1 THEN a ELSE a + RDiv((i - 1) * (b - a), n - 1)]

\* the element of a one-element set
Only(S) == CHOOSE r \in S : TRUE

\* max of a non-empty set of integers
SetMax(S) == CHOOSE m \in S : \A e \in S : e <= m

RECURSIVE SeqSum(_)
\* sum of a sequence of finite numbers
SeqSum(s) == IF s = <<>> THEN 0 ELSE s[1] + SeqSum(Tail(s))

\* np.mean of a non-empty sequence of non-negative numbers, inf or nan
Mean(s) ==
    IF \E i \in 1..Len(s) : s[i] = NaN THEN NaN
    ELSE IF \E i \in 1..Len(s) : s[i] = Inf THEN Inf
    ELSE RDiv(SeqSum(s), Len(s))

\* np.max of a non-empty sequence of non-negative numbers, inf or nan
NpMax(s) ==
    IF \E i \in 1..Len(s) : s[i] = NaN THEN NaN
    ELSE SetMax({s[i] : i \in 1..Len(s)})

\* a < b and a <= b for floats: every comparison with nan is false
FloatLt(a, b) == a # NaN /\ b # NaN /\ a < b

FloatLe(a, b) == a # NaN /\ b # NaN /\ a <= b

\* abs(a - e) / abs(e) for a finite e # 0 and a any float
RelDiff(a, e) ==
    IF a = NaN THEN NaN
    ELSE IF a = Inf \/ a = -Inf THEN Inf
    ELSE FxDiv(FxAbs(a - e), FxAbs(e))

(***************************************************************************)
(* State                                                                   *)
(***************************************************************************)
VARIABLES
    prog,       \* which entry point runs: "solver", "pade" or "bench"
    pc,         \* position inside the running routine
    k0h,        \* kh_numeric: argument k0h
    tol,        \* kh_numeric: argument tol
    max_iter,   \* kh_numeric: argument max_iter
    kh,         \* kh_numeric: local kh (the current estimate)
    iters,      \* kh_numeric: iterations of `for _ in range(max_iter)` begun
    ret,        \* kh_numeric: outcome (returned value or raised exception)
    fit,        \* compute_pade_coeffs: its last call (arguments, locals, outcome)
    ev,         \* pade_approximation: its last call (arguments, outcome)
    score,      \* pade_approximants.main: the scoring of the fit (lines 128-143)
    deg,        \* pade_approximants.main: the loop variable deg
    unique_results, \* pade_approximants.main: the dict, as its items in order
    series_results, \* pade_approximants.main: the list series_results
    pade_output,    \* pade_approximants.main: what was written to pade_output.txt
    pade_routines,  \* pade_approximants.main: what was written to pade_routines.txt
    ordered_approx, \* wave-disp-equation: the registry, in insertion order
    k0h_vals,   \* main: the grid
    results,    \* main: the list results
    results_sorted, \* main: the list results_sorted
    lines,      \* main: the report lines after the header
    main_out,   \* main: how far it got, or the exception that ended it
    ce,         \* compute_errors: its last call (arguments, locals, outcome)
    cat,        \* a catalogue formula: its last call (arguments, outcome)
    table_run   \* table_k0h_kh_1000.py: the grid, the results, the file, the message

solverVars == <<k0h, tol, max_iter, kh, iters, ret>>

\* the locals of main in pade_approximants.py
mainVars == <<deg, unique_results, series_results, pade_output, pade_routines>>

padeVars == <<fit, ev, score, mainVars>>

benchVars == <<ordered_approx, k0h_vals, results, results_sorted, lines, main_out, ce>>

vars == <<prog, pc, solverVars, padeVars, benchVars, cat, table_run>>

\* outcome of a call that has not finished
NoOutcome == [kind |-> "none", val |-> 0, at |-> "none"]

\* `return v`, at names the return statement taken
Return(v, where) == [kind |-> "value", val |-> v, at |-> where]

\* an exception `exc` propagating out of the call
Raise(exc) == [kind |-> exc, val |-> 0, at |-> "raise"]

\* a routine that has not been called
NoCall == [kind |-> "none"]

\* the variables of kh_numeric while another entry point runs
SolverIdle ==
    /\ k0h = 0 /\ tol = 0 /\ max_iter = 0
    /\ kh = 0 /\ iters = 0
    /\ ret = NoOutcome

\* the variables of the fitting module while another entry point runs
PadeIdle ==
    /\ fit = NoCall /\ ev = NoCall /\ score = NoCall
    /\ deg = 0 /\ unique_results = <<>> /\ series_results = <<>>
    /\ pade_output = <<>> /\ pade_routines = <<>>

\* the variables of the benchmark while another entry point runs
BenchIdle ==
    /\ ordered_approx = <<>> /\ k0h_vals = <<>>
    /\ results = <<>> /\ results_sorted = <<>> /\ lines = <<>>
    /\ main_out = NoCall /\ ce = NoCall

\* the catalogue while no formula of it has been called
CatalogueIdle == cat = NoCall

\* the table script while another entry point runs
TableIdle == table_run = NoCall

(***************************************************************************)
(* kh_numeric                                                              *)
(***************************************************************************)
\* largest max_iter drawn (max_iter ranges over -1..MaxIterBound)
MaxIterBound == 4

\* arguments k0h drawn: negative, zero, the working range [0, 2 pi], and
\* values on both sides of the cosh**2 overflow threshold
K0hInputs == {-1000, -1, 0, 1, 100, 500, 1000, 2000, 3142, 6283, 20000,
              355000, 356000, 400000}

\* arguments tol drawn: negative, zero, one unit, and coarser
TolInputs == {-1, 0, 1, 10, 100}

\* mutant of IsZero: the zero guard never taken
IsZero_Never(x) == FALSE

\* if k0h == 0
IsZero(x) == x = 0

\* kh = k0h / math.tanh((6/5)**k0h * math.sqrt(k0h)), for k0h # 0
KhGuess(x) ==
    IF x < 0 THEN Raise("ValueError")                  \* math.sqrt(k0h)
    ELSE LET t == Tanh(FxMul(Pow65(x), FxSqrt(x)))
         IN  IF t = 0 THEN Raise("ZeroDivisionError")
             ELSE Return(FxDiv(x, t), "guess")

\* one pass through the loop body with current estimate y:
\* [kind |-> "step", dkh, kh_new] or the exception raised
NewtonStep(x, y) ==
    IF FxAbs(y) > CoshSqOverflow
    THEN Raise("OverflowError")                        \* math.cosh(kh)**2
    ELSE LET f  == x - FxMul(y, Tanh(y))
             df == (-Tanh(y)) - FxMul(y, InvCoshSq(y))
         IN  IF df = 0 \/ y = 0 THEN Raise("ZeroDivisionError")
             ELSE LET dkh == FxDiv(f, df)
                  IN  [kind |-> "step", dkh |-> dkh, kh_new |-> y - dkh,
                       rel |-> FxAbs(FxDiv(dkh, y))]

\* mutant of Converged: the test also succeeds at equality
Converged_AtMost(step, t) == step.rel <= t

\* if abs(dkh/kh) < tol
Converged(step, t) == step.rel < t

\* for _ in range(max_iter): another pass is due
LoopContinues(n, cap) == n < cap

RECURSIVE KhLoop(_, _, _, _, _)
\* the loop of lines 147-155 run to its end from estimate y after n passes
\* (s ranges over the one value of the pass, so that it is computed once)
KhLoop(x, y, n, t, cap) ==
    IF ~LoopContinues(n, cap) THEN Return(y, "exhausted")
    ELSE Only({ IF s.kind # "step" THEN s
                ELSE IF Converged(s, t) THEN Return(s.kh_new, "converged")
                ELSE KhLoop(x, s.kh_new, n + 1, t, cap)
                : s \in {NewtonStep(x, y)} })

\* kh_numeric(k0h, tol, max_iter) as one call: its outcome
KhNumeric(x, t, cap) ==
    IF IsZero(x) THEN Return(0, "zero")
    ELSE LET g == KhGuess(x)
         IN  IF g.kind # "value" THEN g ELSE KhLoop(x, g.val, 0, t, cap)

\* lines 144-146: the zero guard and the initial guess
KhEnter ==
    /\ prog = "solver" /\ pc = "entry"
    /\ IF IsZero(k0h)
       THEN /\ ret' = Return(0, "zero")
            /\ pc' = "done"
            /\ UNCHANGED <<kh>>
       ELSE LET g == KhGuess(k0h)
            IN  IF g.kind = "value"
                THEN /\ kh' = g.val
                     /\ pc' = "loop"
                     /\ UNCHANGED ret
                ELSE /\ ret' = g
                     /\ pc' = "done"
                     /\ UNCHANGED kh
    /\ UNCHANGED <<prog, k0h, tol, max_iter, iters, padeVars, benchVars, cat, table_run>>

\* lines 147-154: one iteration of the Newton loop
KhIterate ==
    /\ prog = "solver" /\ pc = "loop"
    /\ LoopContinues(iters, max_iter)
    /\ LET s == NewtonStep(k0h, kh)
       IN  IF s.kind # "step"
           THEN /\ ret' = s
                /\ pc' = "done"
                /\ UNCHANGED <<kh, iters>>
           ELSE /\ iters' = iters + 1
                /\ IF Converged(s, tol)
                   THEN /\ ret' = Return(s.kh_new, "converged")
                        /\ pc' = "done"
                        /\ UNCHANGED kh
                   ELSE /\ kh' = s.kh_new
                        /\ UNCHANGED <<ret, pc>>
    /\ UNCHANGED <<prog, k0h, tol, max_iter, padeVars, benchVars, cat, table_run>>

\* line 155: the loop is exhausted, return kh
KhExhaust ==
    /\ prog = "solver" /\ pc = "loop"
    /\ ~LoopContinues(iters, max_iter)
    /\ ret' = Return(kh, "exhausted")
    /\ pc' = "done"
    /\ UNCHANGED <<prog, k0h, tol, max_iter, kh, iters, padeVars, benchVars, cat, table_run>>

SolverInit ==
    /\ prog = "solver" /\ pc = "entry"
    /\ k0h \in K0hInputs
    /\ tol \in TolInputs
    /\ max_iter \in -1..MaxIterBound
    /\ kh = 0 /\ iters = 0
    /\ ret = NoOutcome
    /\ PadeIdle
    /\ BenchIdle
    /\ CatalogueIdle
    /\ TableIdle

SolverNext == KhEnter \/ KhIterate \/ KhExhaust

SpecSolver == SolverInit /\ [][SolverNext]_vars

(***************************************************************************)
(* compute_pade_coeffs and pade_approximation (pade_approximants.py)       *)
(***************************************************************************)
\* kh_numeric's default tol in pade_approximants.py (1e-20, below the
\* resolution of a double): the smallest positive value
PadeTol == 1

\* kh_numeric's default max_iter in pade_approximants.py, scaled to the
\* resolution of the model
PadeMaxIter == 20

\* mutant of PadeKhGuess: the loop starts from kh = k0h
PadeKhGuess_Plain(x) ==
    IF x < 0 THEN Raise("ValueError") ELSE Return(x, "guess")

\* pade_approximants.py's kh_numeric, line 40: the initial guess
\* kh = k0h / math.tanh((6/5)**k0h * math.sqrt(k0h)), for k0h # 0
PadeKhGuess(x) ==
    IF x < 0 THEN Raise("ValueError")
    ELSE Only({ IF t = 0 THEN Raise("ZeroDivisionError")
                ELSE Return(FxDiv(x, t), "guess")
                : t \in {Tanh(FxMul(Pow65(x), FxSqrt(x)))} })

RECURSIVE PadeKhLoop(_, _, _, _, _, _)
\* pade_approximants.py's kh_numeric, lines 41-49: the loop from estimate y after n
\* passes, with ups the updated estimates so far: the outcome of the call
\* and every kh_new computed
PadeKhLoop(x, y, n, t, cap, ups) ==
    IF n >= cap THEN [out |-> Return(y, "exhausted"), updates |-> ups]
    ELSE IF FxAbs(y) > CoshSqOverflow
    THEN [out |-> Raise("OverflowError"), updates |-> ups]
    ELSE Only({ IF df = 0 \/ y = 0
                THEN [out |-> Raise("ZeroDivisionError"), updates |-> ups]
                ELSE Only({ IF FxAbs(FxDiv(dkh, y)) < t
                            THEN [out |-> Return(y - dkh, "converged"),
                                  updates |-> Append(ups, y - dkh)]
                            ELSE PadeKhLoop(x, y - dkh, n + 1, t, cap,
                                            Append(ups, y - dkh))
                            : dkh \in {FxDiv(f, df)} })
                : f \in {x - FxMul(y, Tanh(y))},
                  df \in {(-Tanh(y)) - FxMul(y, InvCoshSq(y))} })

\* pade_approximants.py's kh_numeric(k0h, tol, max_iter), lines 32-49, with its updates
PadeKhRun(x, t, cap) ==
    IF x = 0 THEN [out |-> Return(0, "zero"), updates |-> <<>>]
    ELSE Only({ IF g.kind # "value" THEN [out |-> g, updates |-> <<>>]
                ELSE PadeKhLoop(x, g.val, 0, t, cap, <<>>)
                : g \in {PadeKhGuess(x)} })

\* pade_approximants.py's kh_numeric(k0h, tol, max_iter): its outcome
PadeKhNumeric(x, t, cap) == PadeKhRun(x, t, cap).out

\* largest requested_degree drawn (0..MaxDegree)
MaxDegree == 5

\* largest num_points drawn (1..MaxPoints)
MaxPoints == 3

\* entries np.linalg.lstsq may return for the scaled unknowns
LstsqValues == {-500, 2000}

\* u_max = sqrt(2 * pi)
UMax == FxSqrt(2 * Pi)

\* mutant of UsedDegree: an even request is not reduced
UsedDegree_NoReduction(d) == d

\* used_degree = requested_degree if requested_degree % 2 == 1
\*               else requested_degree - 1
UsedDegree(d) == IF d % 2 = 1 THEN d ELSE d - 1

\* M = (used_degree - 1) // 2
HalfDegree(used) == (used - 1) \div 2

\* theta = np.linspace(0, np.pi, num_points); v_vals = 0.5 * (1 - np.cos(theta))
ChebNodes(n) ==
    LET theta == Linspace(0, Pi, n)
    IN  [i \in 1..n |-> FxMul(500, One - Cos(theta[i]))]

\* mutant of DesignEntry: the numerator columns carry the even powers
\* v ** (2j), without the factor v
DesignEntry_EvenPowers(v, g, M, c) ==
    IF c <= M + 1
    THEN FxMul(UMax, FxPow(v, 2 * (c - 1)))
    ELSE FxMul(-g, FxPow(v, 2 * (c - (M + 1))))

\* A[i, j] for column c = j + 1 (j in 0..M) and c = M + k + 1 (k in 1..M)
DesignEntry(v, g, M, c) ==
    IF c <= M + 1
    THEN FxMul(UMax, FxPow(v, 2 * (c - 1) + 1))
    ELSE FxMul(-g, FxPow(v, 2 * (c - (M + 1))))

\* mutant of ColScales: every column keeps the scale 1
ColScales_Unit(A, n, cols) == [c \in 1..cols |-> One]

\* col_scales = np.max(np.abs(A), axis=0); col_scales[col_scales == 0] = 1.0
ColScales(A, n, cols) ==
    [c \in 1..cols |->
        LET m == SetMax({FxAbs(A[i][c]) : i \in 1..n})
        IN  IF m = 0 THEN One ELSE m]

\* lines 67-75: degree reduction, Chebyshev nodes and target values
FitNodes(d, n) ==
    [kind |-> "running", requested_degree |-> d, num_points |-> n,
     used_degree |-> UsedDegree(d), M |-> HalfDegree(UsedDegree(d)),
     v_vals |-> ChebNodes(n),
     g_vals |-> [i \in 1..n |->
                   PadeKhNumeric(FxMul(FxMul(UMax, ChebNodes(n)[i]),
                                   FxMul(UMax, ChebNodes(n)[i])),
                             PadeTol, PadeMaxIter).val]]

\* lines 78-86: the design matrix A (num_points x (2M+1)) and b;
\* np.zeros raises ValueError for a negative dimension
FitMatrix(f) ==
    IF 2 * f.M + 1 < 0
    THEN [kind |-> "ValueError", requested_degree |-> f.requested_degree,
          num_points |-> f.num_points]
    ELSE f @@ [A |-> [i \in 1..f.num_points |->
                        [c \in 1..(2 * f.M + 1) |->
                            DesignEntry(f.v_vals[i], f.g_vals[i], f.M, c)]],
               b |-> f.g_vals]

\* number of columns of a matrix given as a sequence of n >= 1 rows
Columns(A) == Len(A[1])

\* lines 89-91: column scaling
FitScale(f) ==
    f @@ [col_scales |-> ColScales(f.A, f.num_points, Columns(f.A)),
          A_scaled |-> [i \in 1..f.num_points |->
                          [c \in 1..Columns(f.A) |->
                              FxDiv(f.A[i][c],
                                    ColScales(f.A, f.num_points, Columns(f.A))[c])]]]

\* mutant of SplitP: one coefficient short
SplitP_Short(x, M) == SubSeq(x, 1, M)

\* p = x[:M + 1]
SplitP(x, M) == SubSeq(x, 1, M + 1)

\* q = x[M + 1:]
SplitQ(x, M) == SubSeq(x, M + 2, Len(x))

\* lines 92-97: x_scaled is the vector lstsq returned for A_scaled, b
FitFinish(f, x_scaled) ==
    [f EXCEPT !.kind = "value"] @@
    [x_scaled |-> x_scaled,
     x |-> [c \in 1..Len(x_scaled) |-> FxDiv(x_scaled[c], f.col_scales[c])],
     p |-> SplitP([c \in 1..Len(x_scaled) |->
                     FxDiv(x_scaled[c], f.col_scales[c])], f.M),
     q |-> SplitQ([c \in 1..Len(x_scaled) |->
                     FxDiv(x_scaled[c], f.col_scales[c])], f.M)]

\* sums of squared residuals lstsq may report
ResidualValues == {0, 250}

\* what np.linalg.lstsq(A_scaled, b, rcond=None) may return for a system of
\* n rows: the solution x, the rank (at most min(n, columns)) and the
\* residuals (empty unless the rank is full and n exceeds the columns);
\* the singular values are left out
LstsqResults(A, b) ==
    {l \in [x : [1..Columns(A) -> LstsqValues],
            rank : 0..(IF Len(b) < Columns(A) THEN Len(b) ELSE Columns(A)),
            residuals : {<<>>} \cup {<<v>> : v \in ResidualValues}] :
        (l.residuals # <<>>) <=> (l.rank = Columns(A) /\ Len(b) > Columns(A))}

\* return requested_degree, used_degree, p, q
Returned(f) == <<f.requested_degree, f.used_degree, f.p, f.q>>

RECURSIVE NumSum(_, _, _)
\* lines 114-116: sum of p[j] * v**(2j) for j = 0..M, the first m + 1 terms
NumSum(p, v, m) ==
    IF m < 0 THEN 0
    ELSE NumSum(p, v, m - 1) + FxMul(p[m + 1], FxPow(v, 2 * m))

RECURSIVE DenomSum(_, _, _)
\* lines 118-120: 1.0 plus the sum of q[k-1] * v**(2k) for k = 1..m
DenomSum(q, v, m) ==
    IF m < 1 THEN One
    ELSE DenomSum(q, v, m - 1) + FxMul(q[m], FxPow(v, 2 * m))

\* num / denom on line 121: numpy scalars divide by zero to inf or nan,
\* Python floats raise
Quotient(num, denom, isNumpy) ==
    IF denom # 0 THEN Return(FxDiv(num, denom), "quotient")
    ELSE IF ~isNumpy THEN Raise("ZeroDivisionError")
    ELSE IF num > 0 THEN Return(Inf, "quotient")
    ELSE IF num < 0 THEN Return(-Inf, "quotient")
    ELSE Return(NaN, "quotient")

\* pade_approximation(k0h, p, q); isNumpy: p and q are numpy arrays with at
\* least one denominator term, so num and denom are numpy scalars
PadeApproximation(x, p, q, isNumpy) ==
    IF x < 0 THEN Raise("ValueError")                   \* math.sqrt(k0h)
    ELSE LET v == FxDiv(FxSqrt(x), UMax)
             M == Len(p) - 1
         IN  IF M >= 1 /\ Len(q) < M
             THEN Raise("IndexError")                   \* q[k - 1]
             ELSE LET num   == FxMul(NumSum(p, v, M), FxMul(UMax, v))
                      denom == DenomSum(q, v, M)
                  IN  Quotient(num, denom, isNumpy /\ M >= 1)
                        @@ [num |-> num, denom |-> denom]

\* arguments k0h drawn for pade_approximation
EvalInputs == {-1000, 0, 1000, 3142, 6283}

\* coefficient values drawn for a direct call of pade_approximation
CoeffValues == {-2000, 500}

\* longest p or q drawn for a direct call
MaxCoeffLen == 3

CoeffSeqs == UNION {[1..n -> CoeffValues] : n \in 0..MaxCoeffLen}

\* compute_pade_coeffs is called: lines 67-75
PadeFitNodes ==
    /\ prog = "pade" /\ pc = "idle"
    /\ \E d \in 0..MaxDegree, n \in 1..MaxPoints : fit' = FitNodes(d, n)
    /\ pc' = "fit_matrix"
    /\ UNCHANGED <<prog, solverVars, ev, score, mainVars, benchVars, cat, table_run>>

\* lines 78-86
PadeFitMatrix ==
    /\ prog = "pade" /\ pc = "fit_matrix"
    /\ fit' = FitMatrix(fit)
    /\ pc' = IF fit'.kind = "running" THEN "fit_scale" ELSE "fitted"
    /\ UNCHANGED <<prog, solverVars, ev, score, mainVars, benchVars, cat, table_run>>

\* lines 89-91
PadeFitScale ==
    /\ prog = "pade" /\ pc = "fit_scale"
    /\ fit' = FitScale(fit)
    /\ pc' = "fit_solve"
    /\ UNCHANGED <<prog, solverVars, ev, score, mainVars, benchVars, cat, table_run>>

\* lines 92-97: the solve (any result lstsq may give for the system), the
\* unscaling, the split and the return
PadeFitSolve ==
    /\ prog = "pade" /\ pc = "fit_solve"
    /\ \E l \in LstsqResults(fit.A_scaled, fit.b) :
          fit' = FitFinish(fit, l.x) @@ [lstsq |-> l]
    /\ pc' = "fitted"
    /\ UNCHANGED <<prog, solverVars, ev, score, mainVars, benchVars, cat, table_run>>

\* a call of pade_approximation with the coefficients the fit returned
PadeEvalFitted ==
    /\ prog = "pade" /\ pc = "fitted"
    /\ fit.kind = "value"
    /\ \E x \in EvalInputs :
         ev' = [k0h |-> x, p |-> Returned(fit)[3], q |-> Returned(fit)[4],
                fitted |-> TRUE,
                out |-> PadeApproximation(x, Returned(fit)[3], Returned(fit)[4], TRUE)]
    /\ pc' = "evaluated"
    /\ UNCHANGED <<prog, solverVars, fit, score, mainVars, benchVars, cat, table_run>>

\* a call of pade_approximation with coefficient lists the caller built
PadeEvalDirect ==
    /\ prog = "pade" /\ pc = "idle"
    /\ \E x \in EvalInputs, p \in CoeffSeqs, q \in CoeffSeqs :
         ev' = [k0h |-> x, p |-> p, q |-> q, fitted |-> FALSE,
                out |-> PadeApproximation(x, p, q, FALSE)]
    /\ pc' = "evaluated"
    /\ UNCHANGED <<prog, solverVars, fit, score, mainVars, benchVars, cat, table_run>>

\* number of points of main's grid np.linspace(0, 2 * math.pi, 1000), scaled
ScorePoints == 3

\* the threshold 1e-12 of line 139, in units of the model
Eps == 0

\* one entry of rel_errors (lines 139-141): np.where(np.abs(exact) > 1e-12,
\* np.abs(approx - exact) / np.abs(exact), 0.0)
ScoreError(a, e) == IF FxAbs(e) > Eps THEN RelDiff(a, e) ELSE 0

\* lines 128-129 and 137-143 for the coefficients p, q of one fit
Score(p, q) ==
    Only({ Only({ Only({ [kind |-> "value", k0h_vals |-> grid,
                          exact_vals |-> exact, approx_vals |-> approx,
                          rel_errors |-> rel,
                          avg_err |-> Mean(rel), max_err |-> NpMax(rel)]
                         : rel \in {[i \in 1..ScorePoints |->
                                       ScoreError(approx[i], exact[i])]} })
                  : approx \in {[i \in 1..ScorePoints |->
                                   PadeApproximation(grid[i], p, q, TRUE).val]},
                    exact \in {[i \in 1..ScorePoints |->
                                  PadeKhNumeric(grid[i], PadeTol, PadeMaxIter).val]} })
           : grid \in {Linspace(0, 2 * Pi, ScorePoints)} })

\* main of pade_approximants.py scores the fit it has just obtained
PadeScore ==
    /\ prog = "pade" /\ pc = "fitted"
    /\ fit.kind = "value"
    /\ score' = Score(Returned(fit)[3], Returned(fit)[4])
    /\ pc' = "scored"
    /\ UNCHANGED <<prog, solverVars, fit, ev, mainVars, benchVars, cat, table_run>>

\* first requested degree of main's range(5, 31)
FirstDegree == 5

\* last requested degree of main's loop (30), scaled
LastDegree == 6

\* number of rows of the sample table (50), scaled
SamplePoints == 2

\* lines 128-133: the grid, the exact values, the empty dict, the degrees
PadeMainStart ==
    /\ prog = "pade" /\ pc = "idle"
    /\ deg' = FirstDegree
    /\ unique_results' = <<>>
    /\ pc' = "main_loop"
    /\ UNCHANGED <<prog, solverVars, fit, ev, score, series_results,
                   pade_output, pade_routines, benchVars, cat, table_run>>

\* line 135: compute_pade_coeffs(deg, num_points=300), with num_points
\* scaled to MaxPoints, as one call
PadeMainFit ==
    /\ prog = "pade" /\ pc = "main_loop"
    /\ deg <= LastDegree
    /\ \E f1 \in {FitNodes(deg, MaxPoints)} :
       \E f2 \in {FitMatrix(f1)} :
       \E f3 \in {FitScale(f2)} :
       \E l \in LstsqResults(f3.A_scaled, f3.b) :
          /\ \A c \in 1..Len(l.x) : l.x[c] = l.x[1]
          /\ fit' = FitFinish(f3, l.x) @@ [lstsq |-> l]
    /\ pc' = "main_fitted"
    /\ UNCHANGED <<prog, solverVars, ev, score, mainVars, benchVars, cat, table_run>>

\* mutant of HasKey: no used degree is ever found among the keys
HasKey_Never(ur, used) == FALSE

\* used_deg in unique_results
HasKey(ur, used) == \E i \in 1..Len(ur) : ur[i].used_deg = used

\* mutant of ResultTuple: the coefficients are normalised by the leading
\* numerator coefficient before they are stored
ResultTuple_Normalised(f, sc) ==
    [req_deg |-> Returned(f)[1], used_deg |-> Returned(f)[2],
     p |-> [j \in 1..Len(Returned(f)[3]) |->
              FxDiv(Returned(f)[3][j], Returned(f)[3][1])],
     q |-> Returned(f)[4],
     avg_err |-> sc.avg_err, max_err |-> sc.max_err,
     approx_vals |-> sc.approx_vals]

\* the tuple stored on line 144
ResultTuple(f, sc) ==
    [req_deg |-> Returned(f)[1], used_deg |-> Returned(f)[2],
     p |-> Returned(f)[3], q |-> Returned(f)[4],
     avg_err |-> sc.avg_err, max_err |-> sc.max_err,
     approx_vals |-> sc.approx_vals]

\* lines 136-144: a used degree not seen before is scored and stored; the
\* loop then moves to the next requested degree
PadeMainStore ==
    /\ prog = "pade" /\ pc = "main_fitted"
    /\ IF HasKey(unique_results, Returned(fit)[2])
       THEN UNCHANGED <<score, unique_results>>
       ELSE \E sc \in {Score(Returned(fit)[3], Returned(fit)[4])} :
               /\ score' = sc
               /\ unique_results' = Append(unique_results, ResultTuple(fit, sc))
    /\ deg' = deg + 1
    /\ pc' = IF deg' <= LastDegree THEN "main_loop" ELSE "main_report"
    /\ UNCHANGED <<prog, solverVars, fit, ev, series_results, pade_output,
                   pade_routines, benchVars, cat, table_run>>

\* np.linspace(0, n - 1, m, dtype=int), as positions 1..n
SampleIndices(n, m) ==
    [i \in 1..m |-> IF m = 1 THEN 1 ELSE 1 + ((i - 1) * (n - 1)) \div (m - 1)]

\* lines 177-181: the two cells of one approximant in one sample row
SampleCell(x, r) ==
    Only({ [approx_val |-> approx_val,
            rel_err |-> IF FxAbs(exact_val) > Eps
                        THEN Only({ IF IsFinite(d) THEN FxMul(d, 100 * One) ELSE d
                                    : d \in {RelDiff(approx_val, exact_val)} })
                        ELSE 0]
           : approx_val \in {PadeApproximation(x, r.p, r.q, TRUE).val},
             exact_val \in {PadeKhNumeric(x, PadeTol, PadeMaxIter).val} })

\* lines 150-182: the summary blocks and the sample table of pade_output.txt
ReportText(sr) ==
    [summary |-> [i \in 1..Len(sr) |->
                    [req_deg |-> sr[i].req_deg, used_deg |-> sr[i].used_deg,
                     p |-> sr[i].p, q |-> sr[i].q,
                     avg_pct |-> IF IsFinite(sr[i].avg_err)
                                 THEN 100 * sr[i].avg_err ELSE sr[i].avg_err,
                     max_pct |-> IF IsFinite(sr[i].max_err)
                                 THEN 100 * sr[i].max_err ELSE sr[i].max_err]],
     table |-> [k \in 1..SamplePoints |->
                  Only({ [k0h |-> x,
                          exact |-> PadeKhNumeric(x, PadeTol, PadeMaxIter).val,
                          cells |-> [i \in 1..Len(sr) |-> SampleCell(x, sr[i])]]
                         : x \in {Linspace(0, 2 * Pi, ScorePoints)
                                    [SampleIndices(ScorePoints, SamplePoints)[k]]} })]]

\* lines 147-182: series_results and the report
PadeMainReport ==
    /\ prog = "pade" /\ pc = "main_report"
    /\ series_results' = unique_results
    /\ pade_output' = ReportText(unique_results)
    /\ pc' = "main_routines"
    /\ UNCHANGED <<prog, solverVars, fit, ev, score, deg, unique_results,
                   pade_routines, benchVars, cat, table_run>>

\* lines 199-228: the if/elif chain of the generated pade2025, one branch
\* per stored approximant (the expression is carried by its coefficients),
\* closed by `else: return -1`
RoutineText(sr) ==
    [branches |-> [idx \in 1..Len(sr) |->
                     [formula |-> idx, M |-> Len(sr[idx].p) - 1,
                      num |-> sr[idx].p, denom |-> sr[idx].q]],
     otherwise |-> -1]

\* lines 187-228: pade_routines.txt
PadeMainRoutines ==
    /\ prog = "pade" /\ pc = "main_routines"
    /\ pade_routines' = RoutineText(series_results)
    /\ pc' = "main_done"
    /\ UNCHANGED <<prog, solverVars, fit, ev, score, deg, unique_results,
                   series_results, pade_output, benchVars, cat, table_run>>

PadeInit ==
    /\ prog = "pade" /\ pc = "idle"
    /\ SolverIdle
    /\ PadeIdle
    /\ BenchIdle
    /\ CatalogueIdle
    /\ TableIdle

PadeNext ==
    \/ PadeFitNodes \/ PadeFitMatrix \/ PadeFitScale \/ PadeFitSolve
    \/ PadeEvalFitted \/ PadeEvalDirect \/ PadeScore
    \/ PadeMainStart \/ PadeMainFit \/ PadeMainStore
    \/ PadeMainReport \/ PadeMainRoutines

SpecPade == PadeInit /\ [][PadeNext]_vars

(***************************************************************************)
(* compute_errors and main (wave-disp-equation.py)                         *)
(***************************************************************************)
\* kh_numeric's default tol in wave-disp-equation.py (1e-15, between four
\* and five units in the last place of a double)
BenchTol == 5

\* kh_numeric's default max_iter in wave-disp-equation.py, scaled to the
\* resolution of the model
BenchMaxIter == 10

\* number of entries of ordered_approx
NumCands == 3

\* number of points of main's grid np.linspace(0.0001, 2 * math.pi, 10000),
\* scaled
GridPoints == 2

\* lower end of main's grid (0.0001): the smallest positive value
GridLo == 1

\* None, as a value no float takes
None == -2000000002

\* an argument between the points of main's grid
GapPoint == 5000

\* the callables drawn for a registry entry, by what they return at x:
\* the root itself (as the entry "kh_numeric"), twice the root, three times
\* the root below pi, inf, or a ValueError everywhere or at GapPoint only
FuncKinds == {"exact", "double", "triple_low", "inf", "raises", "raises_gap"}

\* a callable that returns nan at every x: drawn for calls of compute_errors
\* from outside main only (the order sorted() gives keys holding nan is not
\* modelled)
NanKinds == {"nan"}

\* func(x) for a registry entry of the given kind
Func(kind, x) ==
    IF kind = "raises" \/ (kind = "raises_gap" /\ x = GapPoint)
    THEN Raise("ValueError")
    ELSE IF kind = "inf" THEN Return(Inf, "func")
    ELSE IF kind = "nan" THEN Return(NaN, "func")
    ELSE Only({ IF r.kind # "value" THEN r
                ELSE IF kind = "double" THEN Return(2 * r.val, "func")
                ELSE IF kind = "triple_low" /\ x < Pi
                     THEN Return(3 * r.val, "func")
                ELSE Return(r.val, "func")
                : r \in {KhNumeric(x, BenchTol, BenchMaxIter)} })

\* mutant of PointError: the fraction, not the percentage
PointError_Fraction(a, e) ==
    IF e = 0 THEN 0 ELSE RelDiff(a, e)

\* lines 929-932: err for approx_kh = a and exact_kh = e
PointError(a, e) ==
    IF e = 0 THEN 0
    ELSE IF a = NaN THEN NaN
    ELSE IF a = Inf \/ a = -Inf THEN Inf
    ELSE FxDiv(FxMul(100 * One, FxAbs(a - e)), FxAbs(e))

\* mutant of ErrorsLoop: the grid is walked from its last point to its first
\* and each error is appended as it is computed
ErrorsLoop_CompletionOrder(kind, grid, i, errors) ==
    [kind |-> "value",
     val |-> [j \in 1..Len(grid) |->
                PointError(Func(kind, grid[Len(grid) + 1 - j]).val,
                           KhNumeric(grid[Len(grid) + 1 - j],
                                     BenchTol, BenchMaxIter).val)],
     at |-> "loop"]

RECURSIVE ErrorsLoop(_, _, _, _)
\* lines 926-933 from the i-th grid point on: the list errors, or the
\* exception kh_numeric or func raised
ErrorsLoop(kind, grid, i, errors) ==
    IF i > Len(grid) THEN [kind |-> "value", val |-> errors, at |-> "loop"]
    ELSE Only({ IF exact_kh.kind # "value" THEN exact_kh
                ELSE Only({ IF approx_kh.kind # "value" THEN approx_kh
                            ELSE ErrorsLoop(kind, grid, i + 1,
                                    Append(errors,
                                           PointError(approx_kh.val, exact_kh.val)))
                            : approx_kh \in {Func(kind, grid[i])} })
                : exact_kh \in {KhNumeric(grid[i], BenchTol, BenchMaxIter)} })

RECURSIVE MaxFrom(_, _, _)
\* max(errors) from the i-th item on with m the largest so far: an item
\* replaces m when `item > m`, which is false whenever either is nan
MaxFrom(errors, i, m) ==
    IF i > Len(errors) THEN m
    ELSE MaxFrom(errors, i + 1, IF FloatLt(m, errors[i]) THEN errors[i] ELSE m)

\* max(errors) for a non-empty list
PyMax(errors) == MaxFrom(errors, 2, errors[1])

\* mutant of ListIndex: the last position holding v
ListIndex_Last(s, v) ==
    CHOOSE i \in 1..Len(s) : s[i] = v /\ \A j \in (i + 1)..Len(s) : s[j] # v

\* errors.index(v): the first position holding v
ListIndex(s, v) ==
    CHOOSE i \in 1..Len(s) : s[i] = v /\ \A j \in 1..(i - 1) : s[j] # v

\* lines 934-938 for the finished list errors
ErrorsSummary(kind, grid, errors) ==
    IF errors = <<>>
    THEN [kind |-> "ValueError", func |-> kind, k0h_vals |-> grid]  \* max([])
    ELSE [kind |-> "value", func |-> kind, k0h_vals |-> grid,
          errors |-> errors,
          avg_error |-> Mean(errors),
          max_error |-> PyMax(errors),
          idx_max |-> ListIndex(errors, PyMax(errors)),
          k0h_max |-> grid[ListIndex(errors, PyMax(errors))]]

\* compute_errors(func, k0h_vals): its locals and what it returns, or the
\* exception that leaves it
ComputeErrors(kind, grid) ==
    Only({ IF l.kind # "value"
           THEN [kind |-> l.kind, func |-> kind, k0h_vals |-> grid]
           ELSE ErrorsSummary(kind, grid, l.val)
           : l \in {ErrorsLoop(kind, grid, 1, <<>>)} })

\* return avg_error, max_error, k0h_max
ErrorsReturned(c) == <<c.avg_error, c.max_error, c.k0h_max>>

\* grids drawn for a call of compute_errors from outside main
DirectGrids ==
    {<<>>, <<0>>, <<0, 1000>>, <<1000, 0, 3142>>, <<1, 2000, 5000>>,
     <<6283, 3142>>, <<-1000>>, <<1000, 356000>>}

\* a call of compute_errors from outside main
ComputeErrorsCall ==
    /\ prog = "errors" /\ pc = "idle"
    /\ \E kind \in FuncKinds \cup NanKinds, grid \in DirectGrids :
          ce' = ComputeErrors(kind, grid)
    /\ pc' = "returned"
    /\ UNCHANGED <<prog, solverVars, padeVars, cat, table_run, ordered_approx, k0h_vals,
                   results, results_sorted, lines, main_out>>

\* values of random_k0h drawn (np.random.uniform(0.0001, 2 * math.pi))
RandomK0h == {1000, GapPoint}

\* values of 1000 * (end - start) drawn
Timings == {1500, 2500}

\* line 957: the grid
MainGrid ==
    /\ prog = "bench" /\ pc = "idle"
    /\ k0h_vals' = Linspace(GridLo, 2 * Pi, GridPoints)
    /\ results' = <<>>
    /\ main_out' = [kind |-> "running", val |-> 0, at |-> "loop"]
    /\ pc' = "loop"
    /\ UNCHANGED <<prog, solverVars, padeVars, cat, table_run, ordered_approx,
                   results_sorted, lines, ce>>

\* the tuple appended on line 975 for the outcome c of compute_errors and
\* the outcome t of the timing loop
ResultEntry(name, c, t, elapsed) ==
    [name |-> name,
     avg_e |-> IF c.kind = "value" THEN ErrorsReturned(c)[1] ELSE None,
     max_e |-> IF c.kind = "value" THEN ErrorsReturned(c)[2] ELSE None,
     k0h_max |-> IF c.kind = "value" THEN ErrorsReturned(c)[3] ELSE None,
     time1m |-> IF t.kind = "value" THEN elapsed ELSE None]

\* lines 959-975: one pass of the loop over ordered_approx.items()
MainLoop ==
    /\ prog = "bench" /\ pc = "loop"
    /\ Len(results) < Len(ordered_approx)
    /\ \E random_k0h \in RandomK0h, elapsed \in Timings :
       \E c \in {ComputeErrors(ordered_approx[Len(results) + 1], k0h_vals)},
          t \in {Func(ordered_approx[Len(results) + 1], random_k0h)} :
          /\ ce' = c
          /\ results' = Append(results,
                               ResultEntry(Len(results) + 1, c, t, elapsed))
    /\ pc' = IF Len(results') = Len(ordered_approx) THEN "sort" ELSE "loop"
    /\ UNCHANGED <<prog, solverVars, padeVars, cat, table_run, ordered_approx, k0h_vals,
                   results_sorted, lines, main_out>>

\* mutant of SortKey: the measured time breaks ties of avgErr
SortKey_TimeSecond(x) ==
    <<IF x.avg_e = None THEN Inf ELSE x.avg_e,
      IF x.time1m = None THEN Inf ELSE x.time1m>>

\* the key of lines 979-980
SortKey(x) ==
    <<IF x.avg_e = None THEN Inf ELSE x.avg_e,
      IF x.max_e = None THEN Inf ELSE x.max_e>>

\* mutant of KeyLess: equal keys count as less
KeyLess_OrEqual(a, b) == a[1] < b[1] \/ (a[1] = b[1] /\ a[2] <= b[2])

\* a < b for two keys, as Python compares tuples
KeyLess(a, b) == a[1] < b[1] \/ (a[1] = b[1] /\ a[2] < b[2])

RECURSIVE InsertSorted_BeforeTies(_, _)
\* mutant of InsertSorted: x is put before the entries whose key is equal
InsertSorted_BeforeTies(s, x) ==
    IF s = <<>> THEN <<x>>
    ELSE IF ~KeyLess(SortKey(Head(s)), SortKey(x)) THEN <<x>> \o s
    ELSE <<Head(s)>> \o InsertSorted_BeforeTies(Tail(s), x)

RECURSIVE InsertSorted(_, _)
\* x put into the sorted list s after every entry whose key is not greater
InsertSorted(s, x) ==
    IF s = <<>> THEN <<x>>
    ELSE IF KeyLess(SortKey(x), SortKey(Head(s))) THEN <<x>> \o s
    ELSE <<Head(s)>> \o InsertSorted(Tail(s), x)

RECURSIVE SortedFrom(_, _)
\* sorted(results, key=...): a stable sort
SortedFrom(done, rest) ==
    IF rest = <<>> THEN done
    ELSE SortedFrom(InsertSorted(done, Head(rest)), Tail(rest))

Sorted(rs) == SortedFrom(<<>>, rs)

\* lines 977-981
MainSort ==
    /\ prog = "bench" /\ pc = "sort"
    /\ results_sorted' = Sorted(results)
    /\ main_out' = [main_out EXCEPT !.at = "report"]
    /\ pc' = "report"
    /\ UNCHANGED <<prog, solverVars, padeVars, cat, table_run, ordered_approx, k0h_vals,
                   results, lines, ce>>

\* lines 987-1005: the line of one entry; formatting None with a float
\* format raises TypeError
ReportLine(idx, r) ==
    IF r.avg_e = None
    THEN [kind |-> "line", rank |-> idx, meth |-> r.name, text |-> "ERROR"]
    ELSE IF r.time1m = None THEN [kind |-> "TypeError"]
    ELSE [kind |-> "line", rank |-> idx, meth |-> r.name, text |-> "values",
          av |-> r.avg_e, mx |-> r.max_e, k0h_max |-> r.k0h_max,
          t1m |-> r.time1m]

\* lines 983-1009: the report is built, then printed and written
MainReport ==
    /\ prog = "bench" /\ pc = "report"
    /\ IF \E i \in 1..Len(results_sorted) :
             ReportLine(i, results_sorted[i]).kind # "line"
       THEN /\ main_out' = Raise("TypeError")
            /\ pc' = "aborted"
            /\ UNCHANGED lines
       ELSE /\ lines' = [i \in 1..Len(results_sorted) |->
                            ReportLine(i, results_sorted[i])]
            /\ main_out' = [main_out EXCEPT !.at = "plot"]
            /\ pc' = "plot"
    /\ UNCHANGED <<prog, solverVars, padeVars, cat, table_run, ordered_approx, k0h_vals,
                   results, results_sorted, ce>>

\* valid_results = [r for r in results_sorted if r[1] is not None]
ValidResults(rs) == SelectSeq(rs, LAMBDA r : r.avg_e # None)

\* lines 1016-1027: the bar chart up to max(avg_errors), which raises
\* ValueError for an empty list
MainPlot ==
    /\ prog = "bench" /\ pc = "plot"
    /\ IF ValidResults(results_sorted) = <<>>
       THEN /\ main_out' = Raise("ValueError")
            /\ pc' = "aborted"
       ELSE /\ main_out' = [main_out EXCEPT !.at = "plotted"]
            /\ pc' = "done"
    /\ UNCHANGED <<prog, solverVars, padeVars, cat, table_run, ordered_approx, k0h_vals,
                   results, results_sorted, lines, ce>>

\* the module is loaded: main runs over a registry of NumCands entries, or
\* compute_errors is called from outside main
BenchInit ==
    /\ prog \in {"bench", "errors"}
    /\ pc = "idle"
    /\ ordered_approx \in IF prog = "bench" THEN [1..NumCands -> FuncKinds]
                          ELSE {<<>>}
    /\ k0h_vals = <<>> /\ results = <<>> /\ results_sorted = <<>>
    /\ lines = <<>>
    /\ main_out = NoCall /\ ce = NoCall
    /\ CatalogueIdle
    /\ TableIdle
    /\ SolverIdle
    /\ PadeIdle

BenchNext ==
    \/ ComputeErrorsCall
    \/ MainGrid \/ MainLoop \/ MainSort \/ MainReport \/ MainPlot

SpecBench == BenchInit /\ [][BenchNext]_vars

\* the fitting script and the benchmark script together
ScoringInit == PadeInit \/ BenchInit

ScoringNext == PadeNext \/ BenchNext

SpecScoring == ScoringInit /\ [][ScoringNext]_vars

(***************************************************************************)
(* The catalogue formulas with a selector or a zero guard                  *)
(* (wave-disp-equation.py).  The arithmetic expression of a branch is      *)
(* beyond the resolution of the fixed-point numbers: what it evaluates to  *)
(* is carried as an input of the call, any float or exception.             *)
(***************************************************************************)
\* number of branches of pade2025's if/elif chain
Pade2025Formulas == 13

\* number of branches of carvalho2025's if/elif chain
Carvalho2025Formulas == 20

\* number of branches of YamaguchiNonaka's if/elif chain
YamaguchiNonakaFormulas == 10

\* selectors drawn beyond the longest chain
SelectorMargin == 2

\* floats a branch's expression may evaluate to
BodyValues == {-One, 0, 1200, Inf}

\* what a branch's expression may do: return a float, or raise
BodyOutcomes ==
    {Return(v, "formula") : v \in BodyValues}
        \cup {Raise("ValueError"), Raise("ZeroDivisionError"), Raise("OverflowError")}

\* `return -1`
Sentinel == Return(-One, "else")

\* a function body that ends without a return statement
FallThrough == Return(None, "fallthrough")

\* mutant of Selected: the chain also takes the selector 0
Selected_FromZero(formula, last) ==
    IF formula \in 0..last THEN formula ELSE -1

RECURSIVE ElifChain(_, _, _)
\* `if formula == k: ... elif formula == k + 1: ... else:` from branch k on:
\* the branch taken, or -1 for the else branch
ElifChain(formula, k, last) ==
    IF k > last THEN -1
    ELSE IF formula = k THEN k
    ELSE ElifChain(formula, k + 1, last)

\* the branch of a chain of `last` branches that the selector takes
Selected(formula, last) == ElifChain(formula, 1, last)

\* mutant of Guarded: no zero guard
Guarded_NoGuard(x, rest) == rest

\* `if k0h == 0: return 0.0` ahead of the rest of the body
Guarded(x, rest) == IF x = 0 THEN Return(0, "guard") ELSE rest

\* pade2025(k0h, formula), lines 196-223
pade2025(x, formula, body) ==
    IF Selected(formula, Pade2025Formulas) # -1 THEN body ELSE Sentinel

\* line 275: `if k0h <= 1.2`
CarvalhoLow(x) == FloatLe(x, 1200)

\* mutant of CarvalhoMid: the middle range is open at 2.35
CarvalhoMid_Open(x) == FloatLt(1200, x) /\ FloatLt(x, 2350)

\* line 277: `elif 1.2 < k0h <= 2.35`
CarvalhoMid(x) == FloatLt(1200, x) /\ FloatLe(x, 2350)

\* line 279: `elif k0h > 2.35`
CarvalhoHigh(x) == FloatLt(2350, x)

\* lines 275-280: the three ranges of carvalho2025's formula 2
CarvalhoRanges(x, body) ==
    IF CarvalhoLow(x) THEN body
    ELSE IF CarvalhoMid(x) THEN body
    ELSE IF CarvalhoHigh(x) THEN body
    ELSE FallThrough

\* carvalho2025(k0h, formula), lines 271-320
carvalho2025(x, formula, body) ==
    IF Selected(formula, Carvalho2025Formulas) = -1 THEN Sentinel
    ELSE IF Selected(formula, Carvalho2025Formulas) = 2 THEN CarvalhoRanges(x, body)
    ELSE body

\* mutant of YamaguchiNonaka: the selector is dispatched ahead of the guard
YamaguchiNonaka_DispatchFirst(x, formula, body) ==
    IF Selected(formula, YamaguchiNonakaFormulas) = -1 THEN Sentinel
    ELSE Guarded(x, body)

\* YamaguchiNonaka(k0h, formula), lines 355-379
YamaguchiNonaka(x, formula, body) ==
    Guarded(x, IF Selected(formula, YamaguchiNonakaFormulas) # -1
               THEN body ELSE Sentinel)

\* beji2013(k0h), lines 604-606
beji2013(x, body) == Guarded(x, body)

\* Simarro_2013(k0h), lines 400-403: inner is what beji2013's expression
\* does, body what the correction does with kh_Beji
Simarro_2013(x, inner, body) ==
    Guarded(x, IF beji2013(x, inner).kind # "value"
               THEN beji2013(x, inner) ELSE body)

\* vatankhah2013_1(k0h), lines 424-428
vatankhah2013_1(x, body) == Guarded(x, body)

\* vatankhah2013_2(k0h), lines 447-449
vatankhah2013_2(x, body) == Guarded(x, body)

\* yu2014(k0h), lines 671-675
yu2014(x, body) == Guarded(x, body)

\* guo2002(k0h), lines 717-720
guo2002(x, body) == Guarded(x, body)

\* the catalogue functions with a zero guard
GuardedFuncs ==
    {"YamaguchiNonaka", "Simarro_2013", "vatankhah2013_1", "vatankhah2013_2",
     "beji2013", "yu2014", "guo2002"}

\* the catalogue functions that take a selector
SelectorFuncs == {"pade2025", "carvalho2025", "YamaguchiNonaka"}

\* arguments k0h drawn for a catalogue function
CatalogueInputs == {-1000, 0, 1000, 1200, 2000, 2350, 6283, NaN}

\* a call of the function named func
CatalogueApply(func, x, formula, inner, body) ==
    IF func = "pade2025" THEN pade2025(x, formula, body)
    ELSE IF func = "carvalho2025" THEN carvalho2025(x, formula, body)
    ELSE IF func = "YamaguchiNonaka" THEN YamaguchiNonaka(x, formula, body)
    ELSE IF func = "Simarro_2013" THEN Simarro_2013(x, inner, body)
    ELSE IF func = "vatankhah2013_1" THEN vatankhah2013_1(x, body)
    ELSE IF func = "vatankhah2013_2" THEN vatankhah2013_2(x, body)
    ELSE IF func = "beji2013" THEN beji2013(x, body)
    ELSE IF func = "yu2014" THEN yu2014(x, body)
    ELSE guo2002(x, body)

\* one of the catalogue functions is called
CatalogueCall ==
    /\ prog = "catalogue" /\ pc = "idle"
    /\ \E func \in GuardedFuncs \cup SelectorFuncs, x \in CatalogueInputs,
          inner \in BodyOutcomes, body \in BodyOutcomes :
       \E formula \in IF func \in SelectorFuncs
                      THEN (-SelectorMargin)..(Carvalho2025Formulas + SelectorMargin)
                      ELSE {None} :
          cat' = [func |-> func, k0h |-> x, formula |-> formula,
                  out |-> CatalogueApply(func, x, formula, inner, body)]
    /\ pc' = "returned"
    /\ UNCHANGED <<prog, solverVars, padeVars, benchVars, table_run>>

CatalogueInit ==
    /\ prog = "catalogue" /\ pc = "idle"
    /\ CatalogueIdle
    /\ TableIdle
    /\ SolverIdle
    /\ PadeIdle
    /\ BenchIdle

CatalogueNext == CatalogueCall

SpecCatalogue == CatalogueInit /\ [][CatalogueNext]_vars

\* the evaluators of both scripts: pade_approximation and the catalogue
EvaluateInit == PadeInit \/ CatalogueInit

EvaluateNext == PadeNext \/ CatalogueNext

SpecEvaluate == EvaluateInit /\ [][EvaluateNext]_vars

(***************************************************************************)
(* The table script (table_k0h_kh_1000.py)                                 *)
(***************************************************************************)
\* kh_numeric's default tol in table_k0h_kh_1000.py (1e-30, below the
\* resolution carried: the test succeeds only when the step rounds to zero)
TableTol == 1

\* kh_numeric's default max_iter in table_k0h_kh_1000.py (1000), scaled
TableMaxIter == 8

\* table_k0h_kh_1000.py's kh_numeric, line 8: the initial guess
\* kh = k0h / math.tanh((6/5)**k0h * math.sqrt(k0h)), for k0h # 0
TableKhGuess(x) ==
    IF x < 0 THEN Raise("ValueError")
    ELSE Only({ IF t = 0 THEN Raise("ZeroDivisionError")
                ELSE Return(FxDiv(x, t), "guess")
                : t \in {Tanh(FxMul(Pow65(x), FxSqrt(x)))} })

RECURSIVE TableKhLoop(_, _, _, _, _, _)
\* table_k0h_kh_1000.py's kh_numeric, lines 10-23: the loop from estimate y after n
\* passes, with ups the updated estimates so far: the outcome of the call
\* and every kh_new computed
TableKhLoop(x, y, n, t, cap, ups) ==
    IF n >= cap THEN [out |-> Return(y, "exhausted"), updates |-> ups]
    ELSE IF FxAbs(y) > CoshSqOverflow
    THEN [out |-> Raise("OverflowError"), updates |-> ups]
    ELSE Only({ IF df = 0 \/ y = 0
                THEN [out |-> Raise("ZeroDivisionError"), updates |-> ups]
                ELSE Only({ IF FxAbs(FxDiv(dkh, y)) < t
                            THEN [out |-> Return(y - dkh, "converged"),
                                  updates |-> Append(ups, y - dkh)]
                            ELSE TableKhLoop(x, y - dkh, n + 1, t, cap,
                                            Append(ups, y - dkh))
                            : dkh \in {FxDiv(f, df)} })
                : f \in {x - FxMul(y, Tanh(y))},
                  df \in {(-Tanh(y)) - FxMul(y, InvCoshSq(y))} })

\* table_k0h_kh_1000.py's kh_numeric(k0h, tol, max_iter), lines 3-23, with its updates
TableKhRun(x, t, cap) ==
    IF x = 0 THEN [out |-> Return(0, "zero"), updates |-> <<>>]
    ELSE Only({ IF g.kind # "value" THEN [out |-> g, updates |-> <<>>]
                ELSE TableKhLoop(x, g.val, 0, t, cap, <<>>)
                : g \in {TableKhGuess(x)} })

\* table_k0h_kh_1000.py's kh_numeric(k0h, tol, max_iter): its outcome
TableKhNumeric(x, t, cap) == TableKhRun(x, t, cap).out

\* generate_kh_values' default num_values
NumValues == 1000

\* the number of values the completion message states ("10,000")
MessageValues == 10000

\* line 26: k0h_min + i * (k0h_max - k0h_min) / (num_values - 1) for
\* i in range(num_values), for num_values >= 2
K0hValues(n, lo, hi) ==
    [i \in 1..n |-> lo + RDiv((i - 1) * (hi - lo), n - 1)]

\* lines 33-37: the header and one row per result
TableFile(res) ==
    [header |-> "k0h, kh",
     rows |-> [i \in 1..Len(res) |-> [k0h |-> res[i][1], kh |-> res[i][2]]]]

\* lines 40-41 and 26-27: generate_kh_values(output_file) is called with
\* its defaults and builds the grid
TableStart ==
    /\ prog = "table" /\ pc = "idle"
    /\ table_run' = [kind |-> "running",
                     output_file |-> "table_k0h_kh_1000.txt",
                     k0h_values |-> K0hValues(NumValues, 0, 2 * Pi),
                     results |-> <<>>]
    /\ pc' = "loop"
    /\ UNCHANGED <<prog, solverVars, padeVars, benchVars, cat>>

\* lines 29-31: one pass of the loop over k0h_values
TableRow ==
    /\ prog = "table" /\ pc = "loop"
    /\ Len(table_run.results) < Len(table_run.k0h_values)
    /\ \E x \in {table_run.k0h_values[Len(table_run.results) + 1]} :
       \E r \in {TableKhNumeric(x, TableTol, TableMaxIter)} :
          IF r.kind = "value"
          THEN /\ table_run' = [table_run EXCEPT
                                  !.results = Append(@, <<x, r.val>>)]
               /\ pc' = "loop"
          ELSE /\ table_run' = [table_run EXCEPT !.kind = r.kind]
               /\ pc' = "raised"
    /\ UNCHANGED <<prog, solverVars, padeVars, benchVars, cat>>

\* lines 33-37: the file is written
TableWrite ==
    /\ prog = "table" /\ pc = "loop"
    /\ Len(table_run.results) = Len(table_run.k0h_values)
    /\ table_run' = table_run @@ [file |-> TableFile(table_run.results)]
    /\ pc' = "written"
    /\ UNCHANGED <<prog, solverVars, padeVars, benchVars, cat>>

\* line 42: the completion message
TablePrint ==
    /\ prog = "table" /\ pc = "written"
    /\ table_run' = [table_run EXCEPT !.kind = "value"]
                        @@ [message |-> [output_file |-> table_run.output_file,
                                         values |-> MessageValues]]
    /\ pc' = "printed"
    /\ UNCHANGED <<prog, solverVars, padeVars, benchVars, cat>>

TableInit ==
    /\ prog = "table" /\ pc = "idle"
    /\ TableIdle
    /\ SolverIdle
    /\ PadeIdle
    /\ BenchIdle
    /\ CatalogueIdle

TableNext == TableStart \/ TableRow \/ TableWrite \/ TablePrint

SpecTable == TableInit /\ [][TableNext]_vars

(***************************************************************************)
(* Claims about kh_numeric                                                 *)
(***************************************************************************)
\* C1: for every x > 0, every tol and every maxIter >= 1 the call ends by
\* returning a value (no error is raised) after at most maxIter Newton
\* updates, and when the tolerance test never succeeded the value returned
\* is the estimate after the maxIter-th update.
C1_ReturnsWithinCap ==
    (prog = "solver" /\ pc = "done" /\ k0h > 0 /\ max_iter >= 1)
        => /\ ret.kind = "value"
           /\ iters <= max_iter
           /\ (ret.at # "converged"
                 => ret.at = "exhausted" /\ iters = max_iter /\ ret.val = kh)

\* C2: kh_numeric(0, tol, maxIter) returns exactly 0.0 through the zero
\* guard, with no initial guess computed and no Newton iteration executed.
C2_ZeroReturnsZero ==
    (prog = "solver" /\ pc = "done" /\ k0h = 0)
        => ret = Return(0, "zero") /\ iters = 0 /\ kh = 0

\* C2 witness: a finished call with k0h = 0
C2_Witness ==
    prog = "solver" /\ pc = "done" /\ k0h = 0 /\ ret.kind = "value"
        /\ tol <= 0 /\ max_iter = MaxIterBound

\* C7: a call with negative x, non-positive tol or non-positive maxIter
\* never returns a value: it ends by signalling an error.
C7_InvalidInputSignalled ==
    (prog = "solver" /\ pc = "done" /\ (k0h < 0 \/ tol <= 0 \/ max_iter <= 0))
        => ret.kind \notin {"value", "none"}

(***************************************************************************)
(* Claims about compute_pade_coeffs and pade_approximation                 *)
(***************************************************************************)
\* C3: for every requestedDegree >= 1 compute_pade_coeffs returns the
\* requested degree unchanged and a used degree that is the nearest odd
\* integer <= requestedDegree (fit(4) uses 3, fit(5) uses 5).
C3_UsedDegreeNearestOdd ==
    (prog = "pade" /\ pc = "fitted" /\ fit.requested_degree >= 1)
        => /\ fit.kind = "value"
           /\ Returned(fit)[1] = fit.requested_degree
           /\ Returned(fit)[2] % 2 = 1
           /\ Returned(fit)[2] <= fit.requested_degree
           /\ fit.requested_degree - Returned(fit)[2] <= 1
           /\ (fit.requested_degree = 4 => Returned(fit)[2] = 3)
           /\ (fit.requested_degree = 5 => Returned(fit)[2] = 5)

\* C3 witness: a returned fit of the even request 4
C3_Witness ==
    prog = "pade" /\ pc = "fitted" /\ fit.kind = "value"
        /\ fit.requested_degree = 4 /\ Returned(fit)[2] = 3

\* C4: with M = (usedDegree - 1)/2 the solve has exactly 2M+1 unknowns,
\* p is the first M+1 of them and q the remaining M; for requestedDegree = 1
\* M = 0, q is empty and the evaluator's denominator is 1.
C4_SplitOfUnknowns ==
    /\ (prog = "pade" /\ pc = "fitted" /\ fit.requested_degree >= 1)
         => /\ fit.kind = "value"
            /\ LET M == (Returned(fit)[2] - 1) \div 2
                   p == Returned(fit)[3]
                   q == Returned(fit)[4]
               IN  /\ Columns(fit.A_scaled) = 2 * M + 1
                   /\ Len(fit.x_scaled) = 2 * M + 1
                   /\ Len(p) = M + 1 /\ Len(q) = M
                   /\ \A j \in 1..(M + 1) : p[j] = fit.x[j]
                   /\ \A k \in 1..M : q[k] = fit.x[M + 1 + k]
                   /\ (fit.requested_degree = 1 => M = 0 /\ q = <<>>)
    /\ (prog = "pade" /\ pc = "evaluated" /\ ev.fitted
          /\ fit.requested_degree = 1 /\ ev.out.kind = "value")
         => ev.out.denom = One

\* C4 witness: the degree-1 fit evaluated at a positive input
C4_Witness ==
    prog = "pade" /\ pc = "evaluated" /\ ev.fitted
        /\ fit.requested_degree = 1 /\ ev.q = <<>> /\ Len(ev.p) = 1
        /\ ev.k0h > 0 /\ ev.out.kind = "value"

\* C8: pade_approximation never returns a value for a call in which
\* len(p) # len(q) + 1 (q too short or too long): it signals an error.
C8_MismatchRejected ==
    (prog = "pade" /\ pc = "evaluated" /\ Len(ev.p) # Len(ev.q) + 1)
        => ev.out.kind # "value"

(***************************************************************************)
(* Claims about compute_errors, the scoring of a fit, and main             *)
(***************************************************************************)
\* C5: once main has sorted, results_sorted is ascending by the pair
\* (avgErr, maxErr) compared lexicographically, and every candidate whose
\* error evaluation raised comes after every candidate that evaluated.
C5_RankingSorted ==
    (prog = "bench" /\ pc \in {"report", "plot", "done", "aborted"}) =>
        /\ Len(results_sorted) = Len(results)
        /\ \A i, j \in 1..Len(results_sorted) :
              i < j =>
                /\ ~(results_sorted[i].avg_e = None /\ results_sorted[j].avg_e # None)
                /\ (results_sorted[i].avg_e # None /\ results_sorted[j].avg_e # None)
                      => \/ results_sorted[i].avg_e < results_sorted[j].avg_e
                         \/ /\ results_sorted[i].avg_e = results_sorted[j].avg_e
                            /\ results_sorted[i].max_e <= results_sorted[j].max_e

\* C6: whichever candidates raise, in the error computation or in the
\* timing loop, main is never ended by an exception, and the report it
\* emits has one line per registry entry, with every failed candidate's
\* line marked as failed.
C6_RunCompletes ==
    prog = "bench" =>
        /\ pc # "aborted"
        /\ pc \in {"plot", "done"} =>
              /\ \A n \in 1..Len(ordered_approx) :
                    Cardinality({i \in 1..Len(lines) : lines[i].meth = n}) = 1
              /\ \A i \in 1..Len(lines) :
                    (results[lines[i].meth].avg_e = None
                        \/ results[lines[i].meth].time1m = None)
                    => lines[i].text = "ERROR"

C11_SelfComparisonZero ==
    (/\ prog \in {"bench", "errors"} /\ ce # NoCall
     /\ ce.func = "exact"
     /\ Len(ce.k0h_vals) >= 1
     /\ \A i \in 1..Len(ce.k0h_vals) : ce.k0h_vals[i] >= 0)
        => /\ ce.kind = "value"
           /\ ErrorsReturned(ce)[1] = 0
           /\ ErrorsReturned(ce)[2] = 0

(***************************************************************************)
(* Claims about main of pade_approximants.py                               *)
(***************************************************************************)
\* C12: over the whole loop of main, compute_pade_coeffs is called once
\* per used degree: a fit that main has just obtained is never for a used
\* degree whose approximant is already stored in unique_results.
C12_FitOncePerUsedDegree ==
    (prog = "pade" /\ pc = "main_fitted")
        => ~HasKey(unique_results, Returned(fit)[2])

(***************************************************************************)
(* Claims about the evaluators at and around their guards                  *)
(***************************************************************************)
\* C13: at k0h = 0, pade_approximation returns 0.0 whenever len(p) is
\* len(q) + 1, and each catalogue formula with a zero guard returns 0.0,
\* whatever its selector and whatever its expressions would evaluate to.
C13_ZeroAtZero ==
    /\ (prog = "pade" /\ pc = "evaluated" /\ ev.k0h = 0
            /\ Len(ev.p) = Len(ev.q) + 1)
          => ev.out.kind = "value" /\ ev.out.val = 0
    /\ (prog = "catalogue" /\ pc = "returned" /\ cat.func \in GuardedFuncs
            /\ cat.k0h = 0)
          => cat.out.kind = "value" /\ cat.out.val = 0

\* YamaguchiNonaka has been called at k0h = 0 with a selector past its
\* last branch and has returned 0.0
C13_Witness ==
    /\ prog = "catalogue" /\ pc = "returned"
    /\ cat.func = "YamaguchiNonaka" /\ cat.k0h = 0
    /\ cat.formula > YamaguchiNonakaFormulas
    /\ cat.out = Return(0, "guard")

\* C14: for every k0h >= 0 a call of kh_numeric ends by returning a value
\* y >= 0, and when the tolerance test succeeded k0h = y * tanh(y) holds
\* within a tolerance that scales with tol (tol relative to max(1, k0h),
\* plus four units of rounding in the last place carried).
C14_RootNonNegativeWithinTol ==
    (prog = "solver" /\ pc = "done" /\ k0h >= 0)
        => /\ ret.kind = "value"
           /\ ret.val >= 0
           /\ (ret.at = "converged"
                 => FxAbs(k0h - FxMul(ret.val, Tanh(ret.val)))
                        <= FxMul(tol, k0h) + tol + 4)

(***************************************************************************)
(* Claims about main of pade_approximants.py                               *)
(***************************************************************************)
\* C15: once compute_pade_coeffs has returned (p, q), no later step changes
\* them: a call of pade_approximation leaves the returned p and q as they
\* were and sees exactly them; the tuple main stores holds the returned p
\* and q; and the scoring, the report and the code generation leave the
\* coefficients of every stored approximant as they were.
C15_CoefficientsImmutable ==
    [][prog = "pade" =>
        /\ (pc \in {"fitted", "main_fitted"} /\ fit.kind = "value")
              => fit' = fit
        /\ (pc = "fitted" /\ pc' = "evaluated")
              => ev'.p = Returned(fit)[3] /\ ev'.q = Returned(fit)[4]
        /\ (pc \in {"main_loop", "main_fitted", "main_report", "main_routines"})
              => /\ Len(unique_results') >= Len(unique_results)
                 /\ \A i \in 1..Len(unique_results) :
                       /\ unique_results'[i].p = unique_results[i].p
                       /\ unique_results'[i].q = unique_results[i].q
                 /\ Len(unique_results') > Len(unique_results)
                       => /\ unique_results'[Len(unique_results')].p = Returned(fit)[3]
                          /\ unique_results'[Len(unique_results')].q = Returned(fit)[4]
        /\ (pc \in {"main_report", "main_routines"})
              => /\ Len(series_results') = Len(unique_results)
                 /\ \A i \in 1..Len(unique_results) :
                       /\ series_results'[i].p = unique_results[i].p
                       /\ series_results'[i].q = unique_results[i].q
      ]_vars

\* main has run to its end: the approximant stored for the first request
\* has been scored, reported and written out as a branch of pade2025, and
\* a later fit of the same used degree has returned since
C15_Witness ==
    /\ prog = "pade" /\ pc = "main_done"
    /\ Len(unique_results) = 1 /\ Len(unique_results[1].p) = 3
    /\ pade_routines.branches[1].num = unique_results[1].p
    /\ pade_routines.branches[1].denom = unique_results[1].q
    /\ fit.requested_degree = 6

(***************************************************************************)
(* Claims about the selector chains of the catalogue                       *)
(***************************************************************************)
\* C16: pade2025 returns -1 through its else branch for every selector
\* outside 1..13, and carvalho2025 for every selector outside 1..20,
\* whatever k0h is; for a selector inside the range the else branch is not
\* the one that returns.
C16_SentinelOutsideRange ==
    (prog = "catalogue" /\ pc = "returned"
        /\ cat.func \in {"pade2025", "carvalho2025"})
       => LET last == IF cat.func = "pade2025" THEN 13 ELSE 20
          IN  /\ cat.formula \notin 1..last
                   => cat.out = [kind |-> "value", val |-> -One, at |-> "else"]
              /\ cat.formula \in 1..last => cat.out.at # "else"

\* pade2025 has been called with selector 14, which carvalho2025 takes and
\* pade2025 does not, and has returned -1 through its else branch
C16_Witness ==
    /\ prog = "catalogue" /\ pc = "returned"
    /\ cat.func = "pade2025" /\ cat.formula = 14 /\ cat.k0h = 1000
    /\ cat.out.kind = "value" /\ cat.out.val = -One /\ cat.out.at = "else"

(***************************************************************************)
(* Claims about the least-squares solve of compute_pade_coeffs             *)
(***************************************************************************)
\* C17: when compute_pade_coeffs has come back from np.linalg.lstsq it
\* returns (it does not raise, rank deficient or not), and what it returns
\* carries, next to requested_degree, used_degree, p and q, the rank and
\* the residuals the solver reported.
C17_DiagnosticsSurfaced ==
    (prog = "pade" /\ pc = "fitted" /\ "lstsq" \in DOMAIN fit)
        => /\ fit.kind = "value"
           /\ Len(Returned(fit)) >= 6
           /\ Returned(fit)[5] = fit.lstsq.rank
           /\ Returned(fit)[6] = fit.lstsq.residuals

C19_StopsAtFirstSuccess ==
    [][(prog = "solver" /\ pc = "loop" /\ iters < max_iter
          /\ FxAbs(kh) <= CoshSqOverflow)
         => LET f   == k0h - FxMul(kh, Tanh(kh))
                df  == (-Tanh(kh)) - FxMul(kh, InvCoshSq(kh))
                dkh == FxDiv(f, df)
            IN  (df # 0 /\ kh # 0)
                  => IF FxAbs(FxDiv(dkh, kh)) < tol
                     THEN /\ pc' = "done"
                          /\ ret' = [kind |-> "value", val |-> kh - dkh,
                                     at |-> "converged"]
                          /\ iters' = iters + 1
                     ELSE /\ pc' = "loop" /\ ret' = ret
                          /\ kh' = kh - dkh
                          /\ iters' = iters + 1
      ]_vars

\* the call has ended in its second pass with passes to spare: the first
\* pass failed the test, the second succeeded and its estimate was returned
C19_Witness ==
    /\ prog = "solver" /\ pc = "done"
    /\ ret.kind = "value" /\ ret.at = "converged"
    /\ iters = 2 /\ max_iter > iters /\ k0h > 0

C21_ScalesNonZero ==
    (prog = "pade" /\ pc \in {"fit_solve", "fitted"}
        /\ "col_scales" \in DOMAIN fit)
       => \A c \in 1..(2 * fit.M + 1) :
             /\ fit.col_scales[c] # 0
             /\ \A i \in 1..fit.num_points :
                   /\ FxAbs(fit.A[i][c]) <= fit.col_scales[c]
                   /\ fit.A_scaled[i][c] = FxDiv(fit.A[i][c], fit.col_scales[c])
             /\ IF \A i \in 1..fit.num_points : fit.A[i][c] = 0
                THEN fit.col_scales[c] = One
                ELSE \E i \in 1..fit.num_points :
                        FxAbs(fit.A[i][c]) = fit.col_scales[c]
             /\ fit.kind = "value"
                   => fit.x[c] = FxDiv(fit.x_scaled[c], fit.col_scales[c])

\* a fit on the single node v = 0 has returned: every column of A is zero,
\* every scale is 1 and the unknowns were unscaled by it
C21_Witness ==
    /\ prog = "pade" /\ pc = "fitted" /\ fit.kind = "value"
    /\ fit.M = 2 /\ fit.num_points = 1
    /\ \A c \in 1..5 : fit.A[1][c] = 0 /\ fit.col_scales[c] = One
    /\ fit.x = fit.x_scaled

(***************************************************************************)
(* Claims about the table script                                           *)
(***************************************************************************)
\* C22: when the table script has printed its completion message, the file
\* it wrote holds the header line and as many data rows as the message
\* states (10,000), the first at k0h = 0 and the last at k0h = 2 pi.
C22_TableHasStatedRows ==
    (prog = "table" /\ pc = "printed")
        => /\ table_run.file.header = "k0h, kh"
           /\ table_run.message.values = 10000
           /\ Len(table_run.file.rows) = table_run.message.values
           /\ table_run.file.rows[1].k0h = 0
           /\ table_run.file.rows[Len(table_run.file.rows)].k0h = 2 * Pi

(***************************************************************************)
(* Claims about the order of the ranking                                   *)
(***************************************************************************)
\* C23: when the first registry entry is kh_numeric itself and its error
\* evaluation did not raise, it is first in results_sorted after the sort,
\* with avgErr = maxErr = 0, and no entry of the ranking has a smaller key.
C23_ReferenceRanksFirst ==
    (prog = "bench" /\ pc \in {"report", "plot", "done", "aborted"}
        /\ ordered_approx[1] = "exact" /\ results[1].avg_e # None)
       => /\ results_sorted[1].name = 1
          /\ results_sorted[1].avg_e = 0 /\ results_sorted[1].max_e = 0
          /\ \A i \in 1..Len(results_sorted) :
                results_sorted[i].avg_e # None
                   => results_sorted[i].avg_e >= 0 /\ results_sorted[i].max_e >= 0

\* main has sorted a registry in which a later entry ties with kh_numeric
\* at (0, 0): kh_numeric is ranked first and the later entry second
C23_Witness ==
    /\ prog = "bench" /\ pc = "done"
    /\ ordered_approx[1] = "exact" /\ ordered_approx[3] = "exact"
    /\ ordered_approx[2] = "double"
    /\ results_sorted[1].name = 1 /\ results_sorted[2].name = 3
    /\ results_sorted[2].avg_e = 0 /\ results_sorted[2].max_e = 0

\* C24: the sort is stable: two registry entries whose keys (avgErr, maxErr)
\* are equal, two failed entries among them, stand in results_sorted in the
\* order they have in the registry.
C24_SortStable ==
    (prog = "bench" /\ pc \in {"report", "plot", "done", "aborted"}) =>
        \A i, j \in 1..Len(results_sorted) :
            (/\ i < j
             /\ \/ /\ results_sorted[i].avg_e = results_sorted[j].avg_e
                   /\ results_sorted[i].max_e = results_sorted[j].max_e
                \/ /\ results_sorted[i].avg_e = None
                   /\ results_sorted[j].avg_e = None)
               => results_sorted[i].name < results_sorted[j].name

\* main has sorted a registry whose first and last entries failed and whose
\* middle entry evaluated: the two failed entries follow it in registry
\* order
C24_Witness ==
    /\ prog = "bench" /\ pc = "report"
    /\ results[1].avg_e = None /\ results[3].avg_e = None
    /\ results[2].avg_e # None
    /\ results_sorted[1].name = 2
    /\ results_sorted[2].name = 1 /\ results_sorted[3].name = 3

(***************************************************************************)
(* Claims about the sign and order of the errors returned                  *)
(***************************************************************************)
\* C25: whenever compute_errors returns for a candidate that raised at no
\* grid point, 0 <= avgErr and avgErr <= maxErr (as floats compare).
C25_AvgBetweenZeroAndMax ==
    (prog \in {"bench", "errors"} /\ ce # NoCall /\ ce.kind = "value")
        => /\ FloatLe(0, ErrorsReturned(ce)[1])
           /\ FloatLe(ErrorsReturned(ce)[1], ErrorsReturned(ce)[2])

\* C26: the ranking does not depend on the timing: after the sort, the
\* names and the avgErr, maxErr and argmax of results_sorted are those
\* obtained by sorting the errors compute_errors gives for the registry on
\* the grid, whatever timing input was drawn and whatever times were
\* measured; two runs over the same registry and grid therefore rank alike.
C26_RankingIgnoresTiming ==
    (prog = "bench" /\ pc \in {"report", "plot", "done", "aborted"}) =>
        LET untimed == [n \in 1..Len(ordered_approx) |->
                          ResultEntry(n, ComputeErrors(ordered_approx[n], k0h_vals),
                                      NoOutcome, 0)]
            ranking == Sorted(untimed)
        IN  /\ Len(results_sorted) = Len(ranking)
            /\ \A i \in 1..Len(ranking) :
                  /\ results_sorted[i].name = ranking[i].name
                  /\ results_sorted[i].avg_e = ranking[i].avg_e
                  /\ results_sorted[i].max_e = ranking[i].max_e
                  /\ results_sorted[i].k0h_max = ranking[i].k0h_max

\* main has sorted a run in which two entries with equal errors were timed
\* differently, the slower one being first in the registry and in the
\* ranking
C26_Witness ==
    /\ prog = "bench" /\ pc = "done"
    /\ results_sorted[1].name < results_sorted[2].name
    /\ results_sorted[1].avg_e = results_sorted[2].avg_e
    /\ results_sorted[1].max_e = results_sorted[2].max_e
    /\ results_sorted[1].time1m # None /\ results_sorted[2].time1m # None
    /\ results_sorted[1].time1m > results_sorted[2].time1m

(***************************************************************************)
(* Claims about the three copies of kh_numeric                             *)
(***************************************************************************)
\* C27: called with the same k0h, tol and max_iter, the kh_numeric of
\* pade_approximants.py and the kh_numeric of table_k0h_kh_1000.py compute
\* the same updated estimates, pass by pass, as the kh_numeric of
\* wave-disp-equation.py, and end as it does: with the same value through
\* the same return statement, or with the same exception.
C27_CopiesAgree ==
    (prog = "solver" /\ pc \in {"loop", "done"}) =>
        \A run \in {PadeKhRun(k0h, tol, max_iter),
                    TableKhRun(k0h, tol, max_iter)} :
            /\ Len(run.updates) >= iters
            /\ (pc = "loop" /\ iters >= 1) => run.updates[iters] = kh
            /\ pc = "done" => run.out = ret /\ Len(run.updates) = iters

\* a call of the benchmark's kh_numeric has used up its four passes without
\* passing the test, and the fitting module's copy has computed the same
\* fourth estimate
C27_Witness ==
    /\ prog = "solver" /\ pc = "done"
    /\ ret.kind = "value" /\ ret.at = "exhausted"
    /\ iters = MaxIterBound /\ k0h > 0
    /\ Len(PadeKhRun(k0h, tol, max_iter).updates) = MaxIterBound
    /\ PadeKhRun(k0h, tol, max_iter).updates[MaxIterBound] = ret.val
    /\ PadeKhRun(k0h, tol, max_iter).updates[1] # ret.val

C29_GuardBeforeDispatch ==
    (prog = "catalogue" /\ pc = "returned" /\ cat.func = "YamaguchiNonaka") =>
        /\ cat.k0h = 0 => cat.out = Return(0, "guard")
        /\ cat.out = Sentinel <=>
              (cat.k0h # 0 /\ cat.formula \notin 1..YamaguchiNonakaFormulas)

\* YamaguchiNonaka was called at k0h = 0 with the selector 11 and returned
\* from the guard
C29_Witness ==
    /\ prog = "catalogue" /\ pc = "returned"
    /\ cat.func = "YamaguchiNonaka" /\ cat.k0h = 0
    /\ cat.formula = YamaguchiNonakaFormulas + 1
    /\ cat.out = Return(0, "guard")

\* C30: for a call of carvalho2025 with formula 2 at a real k0h, exactly one
\* of the three range tests (k0h <= 1.2, 1.2 < k0h <= 2.35, k0h > 2.35)
\* holds and the call does not reach the end of the body without a return.
C30_RangesPartition ==
    (/\ prog = "catalogue" /\ pc = "returned"
     /\ cat.func = "carvalho2025" /\ cat.formula = 2 /\ cat.k0h # NaN) =>
        /\ Cardinality({r \in {"low", "mid", "high"} :
                           \/ r = "low" /\ CarvalhoLow(cat.k0h)
                           \/ r = "mid" /\ CarvalhoMid(cat.k0h)
                           \/ r = "high" /\ CarvalhoHigh(cat.k0h)}) = 1
        /\ cat.out # FallThrough

\* carvalho2025 was called with formula 2 at the boundary k0h = 2.35 and
\* returned the value of the middle range's expression
C30_Witness ==
    /\ prog = "catalogue" /\ pc = "returned"
    /\ cat.func = "carvalho2025" /\ cat.formula = 2 /\ cat.k0h = 2350
    /\ CarvalhoMid(cat.k0h) /\ ~CarvalhoHigh(cat.k0h)
    /\ cat.out.kind = "value" /\ cat.out.at = "formula"

=============================================================================
